---- MODULE Spec2Model ----
(***************************************************************************)
(* Model of truesocks_rs: the command dispatcher (src/src/lib.rs) and the  *)
(* response model with its field decoders (src/src/models.rs).             *)
(*                                                                         *)
(* JSON values are tagged records: t is the JSON kind and the one other    *)
(* field holds the value (b, n, s, items, fields).  JSON numbers are the   *)
(* integers; u32 and u64 fields are checked for sign only, their upper     *)
(* limits being far above every number of the model.                       *)
(***************************************************************************)
EXTENDS Integers, Sequences, FiniteSets, TLC

\* ---------------------------------------------------------------- JSON
JNull == [t |-> "null"]
JBool(b) == [t |-> "bool", b |-> b]
JNum(n) == [t |-> "num", n |-> n]
JStr(s) == [t |-> "str", s |-> s]
JArr(items) == [t |-> "arr", items |-> items]
JObj(fields) == [t |-> "obj", fields |-> fields]

\* Option<T>
None == [tag |-> "None"]
Some(v) == [tag |-> "Some", val |-> v]
\* Result<T, E> of a decoder
Ok(v) == [tag |-> "Ok", val |-> v]
Err == [tag |-> "Err"]
Pending == [tag |-> "Pending"]

IsStr(v) == v.t = "str"

U16Max == 65535

\* ------------------------------------------------------------- types
\* The Rust types the response model is built from.
TBool == [k |-> "bool"]
TStr == [k |-> "str"]
TU16 == [k |-> "u16"]
TU32 == [k |-> "u32"]
TU64 == [k |-> "u64"]
TF64 == [k |-> "f64"]
TOpt(ty) == [k |-> "opt", of |-> ty]
TVec(ty) == [k |-> "vec", of |-> ty]
TEnum(variants) == [k |-> "enum", variants |-> variants]
TStruct(name) == [k |-> "struct", name |-> name]
\* a field with #[serde(deserialize_with = "...")]
TWith(fn) == [k |-> "with", fn |-> fn]

\* one field of a struct: its JSON key, its Rust name and its type
F(json, rust, ty) == [json |-> json, rust |-> rust, ty |-> ty]

BlacklistType == TEnum({"Open Proxy", "Web Abuse", "Email Spam"})

ConnectionType == TEnum({"Mobile", "DSL", "Hosting", "Unknown", "N/A"})

Status == <<F("code", "code", TU64), F("message", "message", TStr)>>

ApiResponse(T) == <<F("status", "status", TStruct("Status")), F("result", "result", T)>>

BlacklistInfo ==
    <<F("ID", "id", TStr), F("Name", "name", TStr),
      F("Type", "blacklist_type", BlacklistType), F("Desc", "desc", TStr),
      F("Link", "link", TWith("empty_string_as_none"))>>

ProxyInfo ==
    <<F("ProxyID", "proxy_id", TU32), F("CostBuy", "rent_cost", TU32),
      F("CostRent", "private_rent_cost", TU32), F("IsFresh", "is_fresh", TBool),
      F("IP", "ip", TWith("ip_field")), F("Hostname", "hostname", TStr),
      F("ISP", "isp", TStr), F("CountryCode", "country_code", TStr),
      F("Country", "country", TStr), F("Region", "region", TStr),
      F("City", "city", TStr), F("ZipCode", "zip_code", TWith("zipcode_field")),
      F("Timezone", "timezone", TStr), F("Connect", "connection_type", ConnectionType),
      F("Ping", "ping", TF64), F("Speed", "speed", TU32),
      F("UpTimeQuality", "uptime_quality", TU32),
      F("Blacklist", "blacklist", TWith("blacklist_field")),
      F("Distance", "distance", TOpt(TF64))>>

ConnectInfo ==
    <<F("ConnectIP", "connect_ip", TStr), F("ConnectPort", "connect_port", TU16),
      F("ConnectSessionID", "connect_session_id", TStr)>>

ListInfo ==
    <<F("HistoryID", "history_id", TU64),
      F("ConnectInfo", "connect_info", TWith("connect_info_field")),
      F("ProxyInfo", "proxy_info", TStruct("ProxyInfo")),
      F("LastBought", "last_bought", TU64), F("RemainingTime", "remaining_time", TU64),
      F("IsOnline", "is_online", TBool), F("IsFresh", "is_fresh", TBool),
      F("IsRented", "is_rented", TBool), F("RefundAvailable", "refund_available", TBool),
      F("RenewEnabled", "renew_enabled", TBool),
      F("RenewCountRemaining", "renew_count_remaining", TU64),
      F("IPHasChanged", "ip_has_changed", TBool),
      F("Note", "note", TWith("empty_string_as_none"))>>

ListOnlineResult ==
    <<F("LastUpdate", "last_update", TU64), F("ProxyCount", "proxy_count", TU32),
      F("ProxyList", "proxy_list", TVec(TStruct("ProxyInfo")))>>

ListZipSearchResult ==
    <<F("ServerTime", "server_time", TU64),
      F("SearchCountryCode", "search_country_code", TStr),
      F("SearchUnits", "search_units", TStr), F("SearchRange", "search_range", TU32),
      F("SearchZipCode", "search_zip_code", TStr), F("ProxyCount", "proxy_count", TU32),
      F("ProxyList", "proxy_list", TVec(TStruct("ProxyInfo")))>>

ListHistoryResult ==
    <<F("ServerTime", "server_time", TU64), F("HistoryCount", "history_count", TU32),
      F("HistoryEntriesPerPage", "history_entries_per_page", TU32),
      F("HistoryCurrentPage", "history_current_page", TU32),
      F("HistoryMaxPages", "history_max_pages", TU32),
      F("HistoryList", "history_list", TVec(TStruct("ListInfo")))>>

PurchaseResult ==
    <<F("ServerTime", "server_time", TOpt(TU64)),
      F("CreditsLeft", "credits_left", TOpt(TU32)),
      F("HistoryEntry", "history_entry", TOpt(TStruct("ListInfo")))>>

ProxyCheckResult ==
    <<F("tests_passed", "tests_passed", TU32), F("tests_total", "tests_total", TU32),
      F("tests_result", "test_result", TStr),
      F("tests_result_str", "test_result_long", TStr)>>

TestAndRefundResult ==
    <<F("tests_passed", "tests_passed", TU32), F("tests_total", "tests_total", TU32),
      F("tests_result", "test_result", TStr),
      F("tests_result_str", "test_result_long", TStr),
      F("refund_result", "refund_result", TStr),
      F("refund_result_str", "refund_result_long", TStr)>>

EnableProxyRenewalResult ==
    <<F("HistoryID", "history_id", TU32), F("Enabled", "enabled", TBool),
      F("CreditsLeft", "credits_left", TU32), F("Cost", "cost", TU32)>>

DisableProxyRenewalResult ==
    <<F("HistoryID", "history_id", TU32), F("Enabled", "enabled", TBool)>>

AccountStatusResult ==
    <<F("Created", "created", TU64), F("UserID", "user_id", TStr),
      F("Email", "email", TStr), F("Active", "active", TBool),
      F("Plan", "plan", TStr), F("Expires", "expires", TU64),
      F("Credits", "credits", TU32)>>

StructDef(name) ==
    CASE name = "Status" -> Status
      [] name = "BlacklistInfo" -> BlacklistInfo
      [] name = "ProxyInfo" -> ProxyInfo
      [] name = "ConnectInfo" -> ConnectInfo
      [] name = "ListInfo" -> ListInfo
      [] name = "ListOnlineResult" -> ListOnlineResult
      [] name = "ListZipSearchResult" -> ListZipSearchResult
      [] name = "ListHistoryResult" -> ListHistoryResult
      [] name = "PurchaseResult" -> PurchaseResult
      [] name = "ProxyCheckResult" -> ProxyCheckResult
      [] name = "TestAndRefundResult" -> TestAndRefundResult
      [] name = "EnableProxyRenewalResult" -> EnableProxyRenewalResult
      [] name = "DisableProxyRenewalResult" -> DisableProxyRenewalResult
      [] name = "AccountStatusResult" -> AccountStatusResult

\* ----------------------------------------------------------- decoding
\* What a derived struct visitor reads: the members of a JSON object by key
\* (unknown keys are ignored), or the elements of a JSON array of exactly as
\* many elements as the struct has fields, by position.
IsStructLike(v, fields) ==
    \/ v.t = "obj"
    \/ v.t = "arr" /\ Len(v.items) = Len(fields)

StructFields(v, fields) ==
    IF v.t = "obj" THEN v.fields
    ELSE [k \in {fields[i].json : i \in 1..Len(fields)} |->
             v.items[CHOOSE i \in 1..Len(fields) : fields[i].json = k]]

RECURSIVE Deserialize(_, _)
RECURSIVE DeserializeStruct(_, _)
RECURSIVE blacklist_field(_)
RECURSIVE connect_info_field(_)

empty_string_as_none(v) ==
    IF ~IsStr(v) THEN Err
    ELSE IF v.s = "" THEN Ok(None) ELSE Ok(Some(v.s))

\* zipcode_field with the sentinel of empty_string_as_none: the fault C7 must
\* detect.
zipcode_field_empty_sentinel(v) ==
    IF ~IsStr(v) THEN Err
    ELSE IF v.s = "" THEN Ok(None) ELSE Ok(Some(v.s))

zipcode_field(v) ==
    IF ~IsStr(v) THEN Err
    ELSE IF v.s = "-" THEN Ok(None) ELSE Ok(Some(v.s))

\* ip_field taking every boolean for absent, as the untagged enums do: the
\* fault C6 must detect.
ip_field_any_bool(v) ==
    IF v.t = "bool" THEN Ok(None)
    ELSE IF v.t = "str" THEN Ok(Some(v.s))
    ELSE Err

ip_field(v) ==
    IF v.t = "bool" /\ v.b = FALSE THEN Ok(None)
    ELSE IF v.t = "str" THEN Ok(Some(v.s))
    ELSE Err

\* The untagged enum BlacklistField takes the first variant that matches:
\* False(bool), which matches every JSON boolean, then
\* Blacklist(Vec<BlacklistInfo>).
blacklist_field(v) ==
    IF Deserialize(TBool, v) # Err THEN Ok(None)
    ELSE LET list == Deserialize(TVec(TStruct("BlacklistInfo")), v) IN
         IF list # Err THEN Ok(Some(list.val)) ELSE Err

\* The untagged enum ConnectInfoField: False(bool), then ConnectInfo(ConnectInfo).
connect_info_field(v) ==
    IF Deserialize(TBool, v) # Err THEN Ok(None)
    ELSE LET info == Deserialize(TStruct("ConnectInfo"), v) IN
         IF info # Err THEN Ok(Some(info.val)) ELSE Err

DeserializeWith(fn, v) ==
    CASE fn = "empty_string_as_none" -> empty_string_as_none(v)
      [] fn = "zipcode_field" -> zipcode_field(v)
      [] fn = "ip_field" -> ip_field(v)
      [] fn = "blacklist_field" -> blacklist_field(v)
      [] fn = "connect_info_field" -> connect_info_field(v)

\* A field missing from the object is None for an Option<T> field and an
\* error for every other field, those with deserialize_with included.
DeserializeStruct(fields, v) ==
    IF ~IsStructLike(v, fields) THEN Err
    ELSE LET f == StructFields(v, fields)
             Field(e) == IF e.json \in DOMAIN f THEN Deserialize(e.ty, f[e.json])
                         ELSE IF e.ty.k = "opt" THEN Ok(None)
                         ELSE Err
             idx == 1..Len(fields)
         IN IF \E i \in idx : Field(fields[i]) = Err THEN Err
            ELSE Ok([r \in {fields[i].rust : i \in idx} |->
                       Field(fields[CHOOSE i \in idx : fields[i].rust = r]).val])

Deserialize(ty, v) ==
    CASE ty.k = "bool" -> IF v.t = "bool" THEN Ok(v.b) ELSE Err
      [] ty.k = "str" -> IF v.t = "str" THEN Ok(v.s) ELSE Err
      [] ty.k = "u16" -> IF v.t = "num" /\ v.n >= 0 /\ v.n <= U16Max THEN Ok(v.n) ELSE Err
      [] ty.k \in {"u32", "u64"} -> IF v.t = "num" /\ v.n >= 0 THEN Ok(v.n) ELSE Err
      [] ty.k = "f64" -> IF v.t = "num" THEN Ok(v.n) ELSE Err
      [] ty.k = "enum" -> IF v.t = "str" /\ v.s \in ty.variants THEN Ok(v.s) ELSE Err
      [] ty.k = "opt" ->
            IF v.t = "null" THEN Ok(None)
            ELSE LET d == Deserialize(ty.of, v) IN
                 IF d = Err THEN Err ELSE Ok(Some(d.val))
      [] ty.k = "vec" ->
            IF v.t = "arr" /\ \A i \in 1..Len(v.items) : Deserialize(ty.of, v.items[i]) # Err
            THEN Ok([i \in 1..Len(v.items) |-> Deserialize(ty.of, v.items[i]).val])
            ELSE Err
      [] ty.k = "struct" -> DeserializeStruct(StructDef(ty.name), v)
      [] ty.k = "with" -> DeserializeWith(ty.fn, v)

\* ------------------------------------------------- wire values (inputs)
BlEntry(type, link) ==
    JObj([ID |-> JStr("1"), Name |-> JStr("x"), Type |-> JStr(type),
          Desc |-> JStr("d"), Link |-> link])

ConnObj(port) ==
    JObj([ConnectIP |-> JStr("203.0.113.5"), ConnectPort |-> port,
          ConnectSessionID |-> JStr("s1")])

WireStrings == {"", "-", "10001", "203.0.113.5", "share_lol"}

\* The JSON values a sentinel field is decoded from: every JSON kind, the
\* sentinels, well-typed lists and records, and ill-typed ones.
WireValues ==
    {JNull, JBool(TRUE), JBool(FALSE), JNum(42), JObj([Other |-> JNum(1)])}
    \cup {JStr(s) : s \in WireStrings}
    \cup {JArr(<<>>), JArr(<<JNum(42)>>),
          JArr(<<BlEntry("Open Proxy", JStr(""))>>),
          JArr(<<BlEntry("Web Abuse", JStr("http://x")), BlEntry("Email Spam", JStr(""))>>),
          JArr(<<BlEntry("Bogus", JStr(""))>>),
          JArr(<<BlEntry("Open Proxy", JBool(FALSE))>>),
          JArr(<<JStr("203.0.113.5"), JNum(8080), JStr("s1")>>)}
    \cup {ConnObj(JNum(8080)), ConnObj(JStr("8080")), ConnObj(JNum(70000)),
          JObj([ConnectIP |-> JStr("203.0.113.5")])}

\* The sentinel fields of the response model and the decoder of each.
FieldDecoder ==
    [IP |-> "ip_field", ZipCode |-> "zipcode_field", Note |-> "empty_string_as_none",
     Link |-> "empty_string_as_none", Blacklist |-> "blacklist_field",
     ConnectInfo |-> "connect_info_field"]

Fields == DOMAIN FieldDecoder

\* --------------------------------------------------- response payloads
ProxyInfoJson(ip, zip, bl) ==
    JObj([ProxyID |-> JNum(1), CostBuy |-> JNum(1), CostRent |-> JNum(0),
          IsFresh |-> JBool(FALSE), IP |-> ip, Hostname |-> JStr("h"),
          ISP |-> JStr("isp"), CountryCode |-> JStr("US"), Country |-> JStr("c"),
          Region |-> JStr("r"), City |-> JStr("city"), ZipCode |-> zip,
          Timezone |-> JStr("tz"), Connect |-> JStr("N/A"), Ping |-> JNum(12),
          Speed |-> JNum(2048), UpTimeQuality |-> JNum(90), Blacklist |-> bl])

ListInfoJson(ci, note, pi) ==
    JObj([HistoryID |-> JNum(1), ConnectInfo |-> ci, ProxyInfo |-> pi,
          LastBought |-> JNum(1), RemainingTime |-> JNum(3600),
          IsOnline |-> JBool(TRUE), IsFresh |-> JBool(FALSE), IsRented |-> JBool(FALSE),
          RefundAvailable |-> JBool(FALSE), RenewEnabled |-> JBool(FALSE),
          RenewCountRemaining |-> JNum(0), IPHasChanged |-> JBool(FALSE),
          Note |-> note])

GoodProxy == ProxyInfoJson(JStr("203.0.113.5"), JStr("-"), JArr(<<BlEntry("Open Proxy", JStr(""))>>))
BadProxy == ProxyInfoJson(JNum(42), JStr("10001"), JBool(FALSE))
GoodEntry == ListInfoJson(JBool(FALSE), JStr(""), GoodProxy)

ListOnlineJson(list) ==
    JObj([LastUpdate |-> JNum(1), ProxyCount |-> JNum(1), ProxyList |-> JArr(list)])

ListZipSearchJson ==
    JObj([ServerTime |-> JNum(1), SearchCountryCode |-> JStr("US"),
          SearchUnits |-> JStr("km"), SearchRange |-> JNum(5),
          SearchZipCode |-> JStr("10001"), ProxyCount |-> JNum(1),
          ProxyList |-> JArr(<<GoodProxy>>)])

ListHistoryJson ==
    JObj([ServerTime |-> JNum(1), HistoryCount |-> JNum(1),
          HistoryEntriesPerPage |-> JNum(10), HistoryCurrentPage |-> JNum(1),
          HistoryMaxPages |-> JNum(1), HistoryList |-> JArr(<<GoodEntry>>)])

PurchaseJson ==
    JObj([ServerTime |-> JNum(1), CreditsLeft |-> JNull, HistoryEntry |-> GoodEntry])

TestAndRefundJson ==
    JObj([tests_passed |-> JNum(1), tests_total |-> JNum(2), tests_result |-> JStr("ok"),
          tests_result_str |-> JStr("ok"), refund_result |-> JStr("no"),
          refund_result_str |-> JStr("no")])

EnableRenewalJson ==
    JObj([HistoryID |-> JNum(1), Enabled |-> JBool(TRUE), CreditsLeft |-> JNum(3),
          Cost |-> JNum(1)])

AccountStatusJson ==
    JObj([Created |-> JNum(1), UserID |-> JStr("u"), Email |-> JStr("e"),
          Active |-> JBool(TRUE), Plan |-> JStr("p"), Expires |-> JNum(2),
          Credits |-> JNum(3)])

\* The result payloads a response carries: every JSON kind and, for each
\* result struct, an object of its shape; one object holds an ill-typed field.
ResultValues ==
    {JNull, JBool(TRUE), JBool(FALSE), JNum(42), JStr("done"), JArr(<<>>),
     JObj([Other |-> JNum(1)]),
     ListOnlineJson(<<GoodProxy>>), ListOnlineJson(<<BadProxy>>),
     ListZipSearchJson, ListHistoryJson, PurchaseJson, TestAndRefundJson,
     EnableRenewalJson, AccountStatusJson}

\* --------------------------------------------------------------- bounds
MaxProxyId == 1
MaxCost == 1
MaxHistoryId == 1
MaxCode == 1
MaxRange == 1

\* ------------------------------------------------------ response bodies
\* a body res.json() cannot parse
NotJson == [t |-> "invalid"]

StatusJson(code, message) == JObj([code |-> JNum(code), message |-> JStr(message)])

Codes == {0, 209, 210} \cup (1..MaxCode)

Messages == {"ok", "denied"}

WellFormedStatus == {StatusJson(c, m) : c \in Codes, m \in Messages}

MalformedStatus ==
    {JNull, JStr("ok"), JObj([code |-> JNum(1)]),
     JObj([code |-> JNum(-1), message |-> JStr("denied")]),
     JObj([code |-> JStr("0"), message |-> JStr("ok")])}

Envelope(status, result) == JObj([status |-> status, result |-> result])

Bodies ==
    {NotJson, JNull, JStr("ok"), JArr(<<>>)}
    \cup {Envelope(s, r) : s \in WellFormedStatus \cup MalformedStatus, r \in ResultValues}
    \cup {JObj([status |-> s]) : s \in WellFormedStatus}
    \cup {JObj([result |-> r]) : r \in ResultValues}
    \cup {JArr(<<s, JBool(TRUE)>>) : s \in WellFormedStatus}
    \cup {Envelope(JArr(<<JNum(c), JStr("denied")>>), JBool(TRUE)) : c \in Codes}

\* ------------------------------------------------------------ transport
HttpStatuses == {200, 404, 429, 503}

\* What one attempt of the HTTP client ends in: a transport error, which the
\* retry middleware classes as transient (connect, timeout) or not, or a
\* response.
AttemptKinds ==
    {[kind |-> "Err", transient |-> b] : b \in BOOLEAN}
    \cup {[kind |-> "Resp", status |-> s] : s \in HttpStatuses}

WithBody(o, body) ==
    IF o.kind = "Err" THEN o
    ELSE [kind |-> "Resp", status |-> o.status, body |-> body]

is_success(status) == status >= 200 /\ status <= 299

\* RetryTransientMiddleware: transport errors it classes as transient, 5xx,
\* 408 and 429 are transient; every other outcome is final.
Retryable(o) ==
    IF o.kind = "Err" THEN o.transient
    ELSE (o.status >= 500 /\ o.status <= 599) \/ o.status \in {408, 429}

max_retries == 3

\* an off-by-one retry budget: the fault C8 must detect
ShouldRetry_one_more(o, n) == Retryable(o) /\ n <= max_retries

ShouldRetry(o, n) == Retryable(o) /\ n < max_retries

\* ---------------------------------------------------------------- errors
RequestError(status) == [tag |-> "RequestError", status |-> status]
StatusError(code) == [tag |-> "StatusError", http |-> code]

\* --------------------------------------------------------- the dispatcher
api_key == "KEY"

NoParams == [k \in {} |-> ""]

Insert(m, k, v) == [x \in DOMAIN m \cup {k} |-> IF x = k THEN v ELSE m[x]]

merge_values(params1, params2) ==
    [k \in DOMAIN params1 \cup DOMAIN params2 |->
        IF k \in DOMAIN params2 THEN params2[k] ELSE params1[k]]

\* value["status"]: Null unless value is an object that has the key
Index(value, key) ==
    IF value.t = "obj" /\ key \in DOMAIN value.fields THEN value.fields[key] ELSE JNull

\* execute_command deserializing the whole response before it looks at the
\* status code: the fault C2 must detect.
execute_command_parse_first(T, o) ==
    IF o.kind = "Err" THEN StatusError(418)
    ELSE IF ~is_success(o.status) THEN StatusError(o.status)
    ELSE IF o.body = NotJson THEN StatusError(418)
    ELSE LET api_response == DeserializeStruct(ApiResponse(T), o.body) IN
         IF api_response = Err THEN StatusError(418)
         ELSE IF api_response.val.status.code # 0 /\ api_response.val.status.code # 209
         THEN RequestError(api_response.val.status)
         ELSE Ok(api_response.val)

\* execute_command without the check of the HTTP status: the fault C9 must
\* detect.
execute_command_any_status(T, o) ==
    IF o.kind = "Err" THEN StatusError(418)
    ELSE IF o.body = NotJson THEN StatusError(418)
    ELSE LET status == Deserialize(TStruct("Status"), Index(o.body, "status")) IN
         IF status # Err /\ status.val.code # 0 /\ status.val.code # 209
         THEN RequestError(status.val)
         ELSE LET api_response == DeserializeStruct(ApiResponse(T), o.body) IN
              IF api_response = Err THEN StatusError(418) ELSE Ok(api_response.val)

\* execute_command reporting a response that does not deserialize as the
\* declared error of its status, when it has one: the fault C12 must detect.
execute_command_shape_as_declared(T, o) ==
    IF o.kind = "Err" THEN StatusError(418)
    ELSE IF ~is_success(o.status) THEN StatusError(o.status)
    ELSE IF o.body = NotJson THEN StatusError(418)
    ELSE LET status == Deserialize(TStruct("Status"), Index(o.body, "status")) IN
         IF status # Err /\ status.val.code # 0 /\ status.val.code # 209
         THEN RequestError(status.val)
         ELSE LET api_response == DeserializeStruct(ApiResponse(T), o.body) IN
              IF api_response # Err THEN Ok(api_response.val)
              ELSE IF status # Err THEN RequestError(status.val)
              ELSE StatusError(418)

\* execute_command from the end of send() on: o is what send() returned.
execute_command(T, o) ==
    IF o.kind = "Err" THEN StatusError(418)
    ELSE IF ~is_success(o.status) THEN StatusError(o.status)
    ELSE IF o.body = NotJson THEN StatusError(418)
    ELSE LET status == Deserialize(TStruct("Status"), Index(o.body, "status")) IN
         IF status # Err /\ status.val.code # 0 /\ status.val.code # 209
         THEN RequestError(status.val)
         ELSE LET api_response == DeserializeStruct(ApiResponse(T), o.body) IN
              IF api_response = Err THEN StatusError(418) ELSE Ok(api_response.val)

Ops ==
    {"ping", "list_online_proxies", "list_zip_search", "list_history",
     "regular_proxy_rent", "regular_proxy_private_rent", "fresh_proxy_rent",
     "fresh_proxy_private_rent", "check_purchased_proxy", "refund_purchased_proxy",
     "bought_proxy_renew_enable", "bought_proxy_renew_disable",
     "history_entry_change_note", "get_account_status"}

\* the type parameter T each function gives execute_command
ResultType(op) ==
    CASE op = "ping" -> TBool
      [] op = "list_online_proxies" -> TStruct("ListOnlineResult")
      [] op = "list_zip_search" -> TStruct("ListZipSearchResult")
      [] op = "list_history" -> TStruct("ListHistoryResult")
      [] op \in {"regular_proxy_rent", "regular_proxy_private_rent",
                 "fresh_proxy_rent", "fresh_proxy_private_rent"} -> TStruct("PurchaseResult")
      [] op = "check_purchased_proxy" -> TStruct("ProxyCheckResult")
      [] op = "refund_purchased_proxy" -> TStruct("TestAndRefundResult")
      [] op = "bought_proxy_renew_enable" -> TStruct("EnableProxyRenewalResult")
      [] op = "bought_proxy_renew_disable" -> TStruct("DisableProxyRenewalResult")
      [] op = "history_entry_change_note" -> TOpt(TBool)
      [] op = "get_account_status" -> TStruct("AccountStatusResult")

Unit == "()"

\* what each function makes of execute_command's result: ping maps Ok to
\* true, history_entry_change_note to (), the others to res.result
MapResult(op, r) ==
    IF r.tag # "Ok" THEN r
    ELSE CASE op = "ping" -> Ok(TRUE)
           [] op = "history_entry_change_note" -> Ok(Unit)
           [] OTHER -> Ok(r.val.result)

VARIABLES
    pc,              \* "idle", "send" (inside client.get(url).send()), "done"
    call,            \* the function called and its arguments
    request,         \* the request execute_command built, if it was entered
    n_past_retries,  \* retries the middleware has made in this call
    sent,            \* HTTP requests sent in this call
    res,             \* what the last attempt ended in
    ret,             \* what the function returned
    decode           \* a field decoder's input and output

vars == <<pc, call, request, n_past_retries, sent, res, ret, decode>>

NoCall == [op |-> "none"]
NoRequest == [built |-> FALSE]
NoResponse == [kind |-> "none"]
DecodeIdle == [field |-> "none", wire |-> JNull, out |-> Pending]

Init ==
    /\ pc = "idle"
    /\ call = NoCall
    /\ request = NoRequest
    /\ n_past_retries = 0
    /\ sent = 0
    /\ res = NoResponse
    /\ ret = Pending
    /\ decode = DecodeIdle

\* the function enters execute_command, which builds the request
Enter(op, args, command, additional_params) ==
    /\ pc = "idle"
    /\ pc' = "send"
    /\ call' = [op |-> op, args |-> args]
    /\ request' = [built |-> TRUE, cmd |-> command,
                   params |-> merge_values([key |-> api_key, cmd |-> command],
                                           additional_params)]
    /\ n_past_retries' = 0
    /\ sent' = 0
    /\ res' = NoResponse
    /\ ret' = Pending
    /\ UNCHANGED decode

\* the function returns Err(ApiError::from(400_u16)) without entering it
Reject(op, args) ==
    /\ pc = "idle"
    /\ pc' = "done"
    /\ call' = [op |-> op, args |-> args]
    /\ request' = NoRequest
    /\ n_past_retries' = 0
    /\ sent' = 0
    /\ res' = NoResponse
    /\ ret' = StatusError(400)
    /\ UNCHANGED decode

ProxyInfos ==
    [proxy_id : 1..MaxProxyId, is_fresh : BOOLEAN, private_rent_cost : 0..MaxCost]

OptionOf(S) == {None} \cup {Some(x) : x \in S}

ping == Enter("ping", [none |-> TRUE], "Ping", NoParams)

list_online_proxies == Enter("list_online_proxies", [none |-> TRUE], "ListOnline", NoParams)

list_zip_search ==
    \E units \in OptionOf({"km"}), range \in OptionOf(0..MaxRange) :
        LET p0 == [countrycode |-> "US", zipcode |-> "10001"]
            p1 == IF units # None THEN Insert(p0, "units", units.val) ELSE p0
            p2 == IF range # None THEN Insert(p1, "range", ToString(range.val)) ELSE p1
        IN Enter("list_zip_search", [units |-> units, range |-> range],
                 "ListZipSearch", p2)

list_history ==
    \E only_active \in OptionOf({1}), page \in OptionOf({1}) :
        LET p1 == IF only_active # None
                  THEN Insert(NoParams, "onlyactive", ToString(only_active.val))
                  ELSE NoParams
            p2 == IF page # None THEN Insert(p1, "page", ToString(page.val)) ELSE p1
        IN Enter("list_history", [only_active |-> only_active, page |-> page],
                 "ListHistory", p2)

ProxyIdParams(proxy_info) == [proxyid |-> ToString(proxy_info.proxy_id)]

regular_proxy_rent ==
    \E proxy_info \in ProxyInfos :
        IF ~proxy_info.is_fresh
        THEN Enter("regular_proxy_rent", proxy_info, "RegularProxyBuy",
                   ProxyIdParams(proxy_info))
        ELSE Reject("regular_proxy_rent", proxy_info)

\* regular_proxy_private_rent without the check of the cost: the fault C4
\* must detect.
regular_proxy_private_rent_any_cost ==
    \E proxy_info \in ProxyInfos :
        IF ~proxy_info.is_fresh
        THEN Enter("regular_proxy_private_rent", proxy_info, "RegularProxyRent",
                   ProxyIdParams(proxy_info))
        ELSE Reject("regular_proxy_private_rent", proxy_info)

regular_proxy_private_rent ==
    \E proxy_info \in ProxyInfos :
        IF ~proxy_info.is_fresh /\ proxy_info.private_rent_cost > 0
        THEN Enter("regular_proxy_private_rent", proxy_info, "RegularProxyRent",
                   ProxyIdParams(proxy_info))
        ELSE Reject("regular_proxy_private_rent", proxy_info)

\* fresh_proxy_rent without the check of is_fresh: the fault C3 must detect.
fresh_proxy_rent_unchecked ==
    \E proxy_info \in ProxyInfos :
        Enter("fresh_proxy_rent", proxy_info, "FreshProxyBuy", ProxyIdParams(proxy_info))

fresh_proxy_rent ==
    \E proxy_info \in ProxyInfos :
        IF proxy_info.is_fresh
        THEN Enter("fresh_proxy_rent", proxy_info, "FreshProxyBuy",
                   ProxyIdParams(proxy_info))
        ELSE Reject("fresh_proxy_rent", proxy_info)

fresh_proxy_private_rent ==
    \E proxy_info \in ProxyInfos :
        IF proxy_info.is_fresh /\ proxy_info.private_rent_cost > 0
        THEN Enter("fresh_proxy_private_rent", proxy_info, "FreshProxyRent",
                   ProxyIdParams(proxy_info))
        ELSE Reject("fresh_proxy_private_rent", proxy_info)

check_purchased_proxy ==
    \E proxy_info \in ProxyInfos :
        Enter("check_purchased_proxy", proxy_info, "BoughtProxyCheck",
              ProxyIdParams(proxy_info))

refund_purchased_proxy ==
    \E proxy_info \in ProxyInfos :
        Enter("refund_purchased_proxy", proxy_info, "BoughtProxyRefund",
              ProxyIdParams(proxy_info))

bought_proxy_renew_enable ==
    \E history_id \in 1..MaxHistoryId :
        Enter("bought_proxy_renew_enable", [history_id |-> history_id],
              "BoughtProxyRenewEnable", [historyid |-> ToString(history_id)])

bought_proxy_renew_disable ==
    \E history_id \in 1..MaxHistoryId :
        Enter("bought_proxy_renew_disable", [history_id |-> history_id],
              "BoughtProxyRenewDisable", [historyid |-> ToString(history_id)])

\* history_entry_change_note sending note in every call, empty when the caller
\* gave none: the fault C11 must detect.
history_entry_change_note_always_note ==
    \E history_id \in 1..MaxHistoryId, note \in OptionOf({"", "share_lol"}) :
        LET p0 == [historyid |-> ToString(history_id)]
            p1 == Insert(p0, "note", IF note # None THEN note.val ELSE "")
        IN Enter("history_entry_change_note", [history_id |-> history_id, note |-> note],
                 "HistoryEntryChangeNote", p1)

history_entry_change_note ==
    \E history_id \in 1..MaxHistoryId, note \in OptionOf({"", "share_lol"}) :
        LET p0 == [historyid |-> ToString(history_id)]
            p1 == IF note # None THEN Insert(p0, "note", note.val) ELSE p0
        IN Enter("history_entry_change_note", [history_id |-> history_id, note |-> note],
                 "HistoryEntryChangeNote", p1)

get_account_status == Enter("get_account_status", [none |-> TRUE], "AccountStatus", NoParams)

\* One attempt inside send() ends in a transient failure and the middleware,
\* with retries left, tries again; the response is dropped.
SendRetry ==
    /\ pc = "send"
    /\ \E o \in AttemptKinds :
        /\ ShouldRetry(o, n_past_retries)
        /\ res' = o
    /\ n_past_retries' = n_past_retries + 1
    /\ sent' = sent + 1
    /\ UNCHANGED <<pc, call, request, ret, decode>>

\* The last attempt: send() returns, execute_command handles what it returned
\* and the function maps the result.
SendReturn ==
    /\ pc = "send"
    /\ \E k \in AttemptKinds, body \in Bodies :
        LET o == WithBody(k, body) IN
        /\ ~ShouldRetry(o, n_past_retries)
        /\ res' = o
        /\ ret' = MapResult(call.op, execute_command(ResultType(call.op), o))
    /\ sent' = sent + 1
    /\ pc' = "done"
    /\ UNCHANGED <<call, request, n_past_retries, decode>>

\* The caller takes the result; nothing of the call is kept.
Return ==
    /\ pc = "done"
    /\ pc' = "idle"
    /\ call' = NoCall
    /\ request' = NoRequest
    /\ n_past_retries' = 0
    /\ sent' = 0
    /\ res' = NoResponse
    /\ ret' = Pending
    /\ UNCHANGED decode

Next ==
    \/ ping
    \/ list_online_proxies
    \/ list_zip_search
    \/ list_history
    \/ regular_proxy_rent
    \/ regular_proxy_private_rent
    \/ fresh_proxy_rent
    \/ fresh_proxy_private_rent
    \/ check_purchased_proxy
    \/ refund_purchased_proxy
    \/ bought_proxy_renew_enable
    \/ bought_proxy_renew_disable
    \/ history_entry_change_note
    \/ get_account_status
    \/ SendRetry
    \/ SendReturn
    \/ Return

Spec == Init /\ [][Next]_vars

\* ------------------------------------------- the field decoders, alone
InitDecode ==
    /\ pc = "idle"
    /\ call = NoCall
    /\ request = NoRequest
    /\ n_past_retries = 0
    /\ sent = 0
    /\ res = NoResponse
    /\ ret = Pending
    /\ \E f \in Fields, w \in WireValues :
        decode = [field |-> f, wire |-> w, out |-> Pending]

DecodeField(fn) ==
    /\ decode.out = Pending
    /\ decode.field \in Fields
    /\ FieldDecoder[decode.field] = fn
    /\ decode' = [decode EXCEPT !.out = DeserializeWith(fn, decode.wire)]
    /\ UNCHANGED <<pc, call, request, n_past_retries, sent, res, ret>>

Decode_ip_field == DecodeField("ip_field")
Decode_zipcode_field == DecodeField("zipcode_field")
Decode_empty_string_as_none == DecodeField("empty_string_as_none")
Decode_blacklist_field == DecodeField("blacklist_field")
Decode_connect_info_field == DecodeField("connect_info_field")

NextDecode ==
    \/ Decode_ip_field
    \/ Decode_zipcode_field
    \/ Decode_empty_string_as_none
    \/ Decode_blacklist_field
    \/ Decode_connect_info_field

SpecDecode == InitDecode /\ [][NextDecode]_vars

\* ================================================================ claims
\* The response of a finished call was an HTTP success whose body is an
\* envelope with a status of a code and a message.
GotEnvelope ==
    /\ pc = "done"
    /\ res.kind = "Resp"
    /\ is_success(res.status)
    /\ res.body.t = "obj"
    /\ "status" \in DOMAIN res.body.fields
    /\ res.body.fields.status \in WellFormedStatus

EnvelopeCode == res.body.fields.status.fields.code.n
EnvelopeMessage == res.body.fields.status.fields.message.s
DeclaredError == RequestError([code |-> EnvelopeCode, message |-> EnvelopeMessage])

\* the result payload is there and has the shape the called function expects
ExpectedShape ==
    /\ "result" \in DOMAIN res.body.fields
    /\ Deserialize(ResultType(call.op), res.body.fields.result) # Err

\* C1: an HTTP success whose envelope code is 209 yields success only for
\* ListOnline; every other command returns RequestError with code 209 and the
\* envelope's message.
C1_Code209FailsExceptListOnline ==
    (GotEnvelope /\ EnvelopeCode = 209 /\ call.op # "list_online_proxies")
        => ret = DeclaredError

\* C2: for every command, an HTTP success with envelope code 0 and a result
\* payload of the expected shape returns Ok, and one with a nonzero code other
\* than 209 returns RequestError with that code and that message, whatever
\* the result payload is.
C2_CodeZeroOkOtherCodesDeclared ==
    GotEnvelope =>
        /\ (EnvelopeCode = 0 /\ ExpectedShape) => ret.tag = "Ok"
        /\ (EnvelopeCode # 0 /\ EnvelopeCode # 209) => ret = DeclaredError

C2_Witness ==
    /\ GotEnvelope
    /\ EnvelopeCode = 210
    /\ call.op = "get_account_status"
    /\ "result" \in DOMAIN res.body.fields
    /\ res.body.fields.result = JNum(42)
    /\ ret = RequestError([code |-> 210, message |-> "denied"])

FreshOps == {"fresh_proxy_rent", "fresh_proxy_private_rent"}
RegularOps == {"regular_proxy_rent", "regular_proxy_private_rent"}
PrivateOps == {"regular_proxy_private_rent", "fresh_proxy_private_rent"}

\* the call returned the precondition failure and no request was built or sent
FailedFast ==
    /\ pc = "done"
    /\ ret = StatusError(400)
    /\ ~request.built
    /\ sent = 0

\* C3: a fresh-variant purchase of a proxy that is not fresh, and a
\* regular-variant purchase of a proxy that is fresh, return StatusError(400)
\* and send no HTTP request.
C3_FreshnessMismatchFailsFast ==
    /\ (call.op \in FreshOps /\ ~call.args.is_fresh) => FailedFast
    /\ (call.op \in RegularOps /\ call.args.is_fresh) => FailedFast

C3_Witness ==
    /\ call.op = "fresh_proxy_rent"
    /\ ~call.args.is_fresh
    /\ call.args.private_rent_cost > 0
    /\ FailedFast

\* C4: a private rental of a proxy whose private_rent_cost is 0 returns
\* StatusError(400) and sends no HTTP request, whether the proxy is fresh or
\* not.
C4_ZeroCostPrivateRentFailsFast ==
    (call.op \in PrivateOps /\ call.args.private_rent_cost = 0) => FailedFast

C4_Witness ==
    /\ call.op = "fresh_proxy_private_rent"
    /\ call.args.is_fresh
    /\ call.args.private_rent_cost = 0
    /\ FailedFast

Decoded == decode.out # Pending

\* C5: the blacklist and the connection-credential decoders return absent for
\* boolean false alone, and a decode failure for boolean true, numbers,
\* strings and null.
C5_OnlyFalseIsAbsent ==
    (Decoded /\ decode.field \in {"Blacklist", "ConnectInfo"}) =>
        /\ decode.out = Ok(None) <=> decode.wire = JBool(FALSE)
        /\ (decode.wire.t \in {"num", "str", "null"} \/ decode.wire = JBool(TRUE))
               => decode.out = Err

\* C6: the IP decoder returns absent for boolean false, the same string for a
\* JSON string and a decode failure for every other JSON value.
C6_IpField ==
    (Decoded /\ decode.field = "IP") =>
        decode.out = IF decode.wire = JBool(FALSE) THEN Ok(None)
                     ELSE IF decode.wire.t = "str" THEN Ok(Some(decode.wire.s))
                     ELSE Err

C6_Witness ==
    /\ decode.field = "IP"
    /\ decode.wire = JNum(42)
    /\ decode.out = Err

Sentinel(field) == IF field = "ZipCode" THEN "-" ELSE ""

\* C7: for the zip code, the note and the blacklist link, a wire string
\* decodes to absent exactly when it is the field's sentinel ("-" for the zip
\* code, "" for the other two) and to the same string otherwise.
C7_StringSentinels ==
    (Decoded /\ decode.field \in {"ZipCode", "Note", "Link"} /\ decode.wire.t = "str") =>
        decode.out = IF decode.wire.s = Sentinel(decode.field) THEN Ok(None)
                     ELSE Ok(Some(decode.wire.s))

C7_Witness ==
    /\ decode.field = "Note"
    /\ decode.wire = JStr("")
    /\ decode.out = Ok(None)

\* a network error the middleware retries, or a 5xx response
TransientFailure(o) ==
    \/ o.kind = "Err" /\ o.transient
    \/ o.kind = "Resp" /\ o.status >= 500 /\ o.status <= 599

NonTransient4xx(o) ==
    o.kind = "Resp" /\ o.status >= 400 /\ o.status <= 499 /\ o.status \notin {408, 429}

\* C8: one call makes at most 4 attempts (3 retries); a transient failure is
\* retried while retries are left, so it surfaces only from the fourth
\* attempt, as a failure; a success on the fourth attempt returns Ok with the
\* parsed result of that response; a non-transient 4xx response ends the call
\* (one attempt when it is the first outcome).
C8_RetryBudget ==
    /\ sent <= 4
    /\ n_past_retries <= 3
    /\ (pc = "done" /\ TransientFailure(res)) => (sent = 4 /\ ret.tag = "StatusError")
    /\ (pc = "send" /\ sent > 0 /\ res.kind = "Resp") => ~is_success(res.status)
    /\ NonTransient4xx(res) =>
           (pc = "done" /\ ret = StatusError(res.status) /\ (n_past_retries = 0 => sent = 1))
    /\ (GotEnvelope /\ sent = 4 /\ EnvelopeCode = 0 /\ ExpectedShape) =>
           /\ ret.tag = "Ok"
           /\ call.op \notin {"ping", "history_entry_change_note"} =>
                  ret.val = Deserialize(ResultType(call.op), res.body.fields.result).val

C8_Witness ==
    /\ GotEnvelope
    /\ sent = 4
    /\ n_past_retries = 3
    /\ call.op = "list_online_proxies"
    /\ EnvelopeCode = 0
    /\ ExpectedShape
    /\ res.body.fields.result = ListOnlineJson(<<GoodProxy>>)
    /\ ret.tag = "Ok"
    /\ ret.val.proxy_list[1].zip_code = None

\* C9: when the response send() returned has a non-success HTTP status, the
\* call returns StatusError with that status, whatever the body holds.
C9_NonSuccessStatus ==
    (pc = "done" /\ res.kind = "Resp" /\ ~is_success(res.status))
        => ret = StatusError(res.status)

C9_Witness ==
    /\ pc = "done"
    /\ res.kind = "Resp"
    /\ res.status = 404
    /\ res.body = Envelope(StatusJson(210, "denied"), JBool(TRUE))
    /\ ret = StatusError(404)

\* C10: history_entry_change_note returns Ok(()) whenever the response is an
\* HTTP success with envelope code 0, whatever the shape of the result
\* payload.
C10_NoteChangeIgnoresPayload ==
    (GotEnvelope /\ EnvelopeCode = 0 /\ call.op = "history_entry_change_note"
        /\ "result" \in DOMAIN res.body.fields)
        => ret = Ok(Unit)

\* the decimal digits of the history ids of the model
Decimal(n) == CASE n = 1 -> "1" [] n = 2 -> "2" [] n = 3 -> "3"

HttpSuccess == pc = "done" /\ res.kind = "Resp" /\ is_success(res.status)

BodyIsObject == res.body.t = "obj"
BodyIsScalar == res.body.t \in {"null", "bool", "num", "str"}
HasStatus == "status" \in DOMAIN res.body.fields
HasResult == "result" \in DOMAIN res.body.fields

\* the status of an object body is missing or is none serde reads as a Status
StatusUnparsed == ~HasStatus \/ res.body.fields.status \in MalformedStatus

\* the code of a status serde reads: an object of code and message, or the
\* array [code, message]
DeclaredCode ==
    IF res.body.fields.status.t = "arr" THEN res.body.fields.status.items[1].n
    ELSE res.body.fields.status.fields.code.n

ResultWrongShape ==
    HasResult /\ Deserialize(ResultType(call.op), res.body.fields.result) = Err

\* C12 (as claimed): an HTTP success whose body is not JSON, whose status is
\* missing or malformed, or whose result is missing or of the wrong shape is
\* reported as StatusError(418), never as Ok or RequestError; RequestError is
\* returned only when the status parsed and carried a nonzero code.
C12_InvalidResponseIsOpaque ==
    HttpSuccess =>
        /\ (\/ res.body = NotJson
            \/ BodyIsScalar
            \/ BodyIsObject /\ (StatusUnparsed \/ ~HasResult \/ ResultWrongShape))
               => ret = StatusError(418)
        /\ ret.tag = "RequestError" =>
               (BodyIsObject /\ ~StatusUnparsed /\ DeclaredCode # 0)

\* C12 (amended): the status is looked at first.  A body that is not JSON or
\* is a JSON scalar, an object whose status is missing or malformed, and an
\* object of status code 0 or 209 whose result has the wrong shape, or is
\* missing for a function other than history_entry_change_note, are reported
\* as StatusError(418).  A status of another code is reported as RequestError
\* whatever the result is, and a missing result is Ok(()) for
\* history_entry_change_note.  An array body is never RequestError, and is
\* StatusError(418) unless it has the two elements of an ApiResponse.
\* RequestError is returned only when the status parsed and carried a nonzero
\* code.
C12_StatusFirstThenShape ==
    HttpSuccess =>
        /\ (res.body = NotJson \/ BodyIsScalar) => ret = StatusError(418)
        /\ res.body.t = "arr" =>
               /\ ret.tag # "RequestError"
               /\ Len(res.body.items) # 2 => ret = StatusError(418)
        /\ (BodyIsObject /\ StatusUnparsed) => ret = StatusError(418)
        /\ (BodyIsObject /\ ~StatusUnparsed /\ DeclaredCode \in {0, 209}) =>
               /\ ResultWrongShape => ret = StatusError(418)
               /\ ~HasResult =>
                      ret = IF call.op = "history_entry_change_note" THEN Ok(Unit)
                            ELSE StatusError(418)
        /\ (BodyIsObject /\ ~StatusUnparsed /\ DeclaredCode \notin {0, 209}) =>
               /\ ret.tag = "RequestError"
               /\ ret.status.code = DeclaredCode
        /\ ret.tag = "RequestError" =>
               (BodyIsObject /\ ~StatusUnparsed /\ DeclaredCode # 0)

C12_Witness ==
    /\ HttpSuccess
    /\ call.op = "get_account_status"
    /\ res.body = Envelope(StatusJson(0, "ok"), JNum(42))
    /\ ret = StatusError(418)
====
